---- MODULE Spec2Model ----
(***************************************************************************)
(* Model of the resumable batch orchestrator of the WITS automation bots.  *)
(*   - SendQueryBot (src/src/bots/send_execute_query_bot.py): process_query, *)
(*     _run_iteration, process_country, _check_progress                     *)
(*   - BrowserManager (src/src/automation/browser.py): start, stop          *)
(*   - ManageSuspendedQueriesBot.run (retry loop around one browser)        *)
(*   - ManageSuspendedQueriesBot: the processed-ids ledger, the scan loop,  *)
(*     _handle_pagination and _do_pagination_logic (same in DeleteQueriesBot)*)
(*   - ReprocessSuspendedBot.run (src/src/bots/reprocess_suspended_bot.py)  *)
(* The remote site, the login flow and the per-country unit of work are     *)
(* external: their outcomes are nondeterministic choices.                   *)
(***************************************************************************)
EXTENDS Integers, Sequences, FiniteSets, TLC

\* ---------------------------------------------------------------- bounds
MaxIds == 3          \* number of keys of config['iso3_to_country']
MaxRuns == 2         \* process starts (first run + restarts) of SendQueryBot
MaxCount == 3        \* range of the counts handed to _check_progress alone
MaxStagnant == 6     \* range of stagnant_iters handed to _check_progress alone

MaxPairs == 2        \* distinct (query_name, iso3) pairs of the suspended csv
MaxRows == 3         \* rows of the suspended csv
MaxRpRuns == 2       \* process starts of ReprocessSuspendedBot

MaxQueryIds == 3     \* distinct query ids met by ManageSuspendedQueriesBot

MaxPage == 3         \* highest page number a pager row can show

MaxGridPages == 16   \* pages of the fixed grid the resolver is run against
MaxButtons == 2      \* page buttons of a block of that grid
MaxScanPages == 3    \* pages of the grid a scan runs over
MaxScRuns == 2       \* process starts of ManageSuspendedQueriesBot
MaxDelete == 2       \* delete buttons on a page
MaxSqHandles == 2    \* driver handles SendQueryBot.run goes through

\* ------------------------------------------------------ program constants
StagnationThreshold == 5     \* send_execute_query_bot.py:165
max_retries == 3             \* manage_suspended_queries_bot.py:33

max_no_progress_attempts == 5    \* reprocess_suspended_bot.py:236

max_attempts == 15           \* manage_suspended_queries_bot.py:134
Ellipsis == 0                \* the anchor text '...' among the page numbers

None == 0                    \* Python None for the handle-valued fields

VARIABLES
    \* --- SendQueryBot.process_query locals and position
    pc,                 \* position inside process_query / _run_iteration
    config,             \* keys of config['iso3_to_country'], in dict order
    undone_countries,   \* keys of the work dict, in dict order
    total_count,
    last_undone_count,
    stagnant_iters,
    iteration,
    is_stagnant,
    keys,               \* rest of list(undone_countries.keys()) of the for loop
    key,                \* loop variable of the for loop (None outside)
    result,             \* return value of process_query
    \* --- files
    done_file,          \* lines of output/done/<query_name>
    undone_tasks,       \* keys having a file in output/undone_tasks
    handed,             \* keys of the dict passed to save_undone_countries
    \* --- BrowserManager fields and the processes they refer to
    playwright,
    browser,
    hseq,               \* number of playwright drivers started so far
    openPw,             \* playwright drivers currently running
    openBr,             \* browsers currently open
    \* --- history of the run (observation only)
    runs,               \* process starts so far
    doneAtStart,        \* keys in done_file when the current run started
    attempts,           \* process_country calls of the current session
    succeeded,          \* keys whose process_country returned True, this run
    tried,              \* keys process_country was called with, this run
    sessions,           \* sessions finished in this run
    firstFailRun,       \* latest consecutive sessions that failed their first item
    undoneAtStart,      \* undone_countries when the current session started
    lastLogin,          \* outcome of login in the current session
    \* --- ManageSuspendedQueriesBot.run
    ms_pc,
    attempt,
    ms_break,           \* the success path reached 'break'
    \* --- _check_progress taken alone
    cp_current, cp_last, cp_stagnant,
    cp_called,          \* the call has returned
    cp_result,          \* the returned tuple
    \* --- ReprocessSuspendedBot.run
    rp_pc,
    rp_csv,             \* pairs of the rows of suspended_queries.csv, in order
    rp_ledger,          \* lines of output/suspended/reprocessed_pairs.txt
    rp_marker,          \* lines of the files of output/reprocessed
    pairs_to_process,
    failed_pairs,
    still_failed,
    rp_idx,             \* idx of the enumerate of the running for loop
    success_count,
    retry_attempt,
    no_progress_count,
    previous_failed_count,
    rp_last,            \* what happened to the last pair handled
    rp_runs,            \* process starts so far
    rp_worked,          \* pairs whose four steps succeeded, this run
    \* --- ManageSuspendedQueriesBot: the processed-ids ledger
    processed_ids,      \* self.processed_ids
    lg_json,            \* query_id of the records of suspended_details.json
    lg_csv,             \* rows of suspended_queries.csv: [id, found]
    lg_last,            \* the operation that ran last
    \* --- ManageSuspendedQueriesBot: the scan loop and the pager
    pg_pc,
    page_index,         \* current_page_index of the scan / page_index of the call
    pg_calls,           \* calls of _do_pagination_logic by this _handle_pagination
    pg_attempt,         \* iterations of the for loop started by this call
    pg_row,             \* the pager row of the last snapshot
    pg_action,          \* what the last iteration did to the page
    pg_success,         \* last value returned by _do_pagination_logic
    pg_raised,          \* the last call left through its except clause
    pg_all_empty,       \* every snapshot of this _handle_pagination was empty
    \* --- the results grid of the remote site, when it is a fixed one
    gr_n,               \* number of pages of the grid
    gr_w,               \* page buttons the pager shows at a time
    gr_cur,             \* page the grid shows
    gr_bot,             \* the bot whose _do_pagination_logic runs
    \* --- process_suspended_queries / process_deletion on that grid
    current_page_index,
    target_page,
    last_page,          \* content of last_page.txt (0: no file)
    sc_susp,            \* pages whose query is suspended
    sc_ret,             \* the loop a call of _handle_pagination returns to
    sc_worked,          \* id whose Log the last page scan opened (0: none)
    sc_err,             \* a row or the navigation failed in this session
    sc_runs,            \* process starts so far
    dl_count,           \* delete buttons on each page
    dl_stubborn,        \* the site never removes a row
    dl_clicks,          \* parity of the clicks of Delete
    \* --- the two copies of _do_pagination_logic run side by side
    eq_manage,          \* what ManageSuspendedQueriesBot's iteration did
    eq_delete           \* what DeleteQueriesBot's iteration did

pqVars == <<pc, config, undone_countries, total_count, last_undone_count,
            stagnant_iters, iteration, is_stagnant, keys, key, result,
            done_file, undone_tasks, handed, runs, doneAtStart, attempts, succeeded, tried,
            sessions, firstFailRun, undoneAtStart, lastLogin>>
bmVars == <<playwright, browser, hseq, openPw, openBr>>
msVars == <<ms_pc, attempt, ms_break>>
cpVars == <<cp_current, cp_last, cp_stagnant, cp_called, cp_result>>
pqVarsButPc == <<config, undone_countries, total_count, last_undone_count,
            stagnant_iters, iteration, is_stagnant, keys, key, result,
            done_file, undone_tasks, handed, runs, doneAtStart, attempts, succeeded, tried,
            sessions, firstFailRun, undoneAtStart, lastLogin>>
rpVars == <<rp_pc, rp_csv, rp_ledger, rp_marker, pairs_to_process,
            failed_pairs, still_failed, rp_idx, success_count, retry_attempt,
            no_progress_count, previous_failed_count, rp_last, rp_runs,
            rp_worked>>
lgVars == <<processed_ids, lg_json, lg_csv, lg_last>>
pgVars == <<pg_pc, page_index, pg_calls, pg_attempt, pg_row, pg_action,
            pg_success, pg_raised, pg_all_empty>>
grVars == <<gr_n, gr_w, gr_cur, gr_bot>>
scVars == <<current_page_index, target_page, last_page, sc_susp, sc_ret,
            sc_worked, sc_err, sc_runs>>
dlVars == <<dl_count, dl_stubborn, dl_clicks>>
eqVars == <<eq_manage, eq_delete>>
gsVars == <<grVars, scVars, dlVars, eqVars>>
newVars == <<rpVars, lgVars, pgVars, gsVars>>
vars == <<pqVars, bmVars, msVars, cpVars, newVars>>

PqPositions == {"process_query", "while", "start", "login", "for",
                "process_country", "del", "finally", "check", "after_loop",
                "returned", "raised"}

\* ---------------------------------------------------------------- helpers
Range(s) == {s[i] : i \in 1..Len(s)}

\* the del statement left out
RemoveNothing(s, k) == s

RECURSIVE Remove(_, _)
\* del d[k] on the key order of a dict
Remove(s, k) ==
    IF s = <<>> THEN <<>>
    ELSE IF Head(s) = k THEN Tail(s)
    ELSE <<Head(s)>> \o Remove(Tail(s), k)

\* the key orders config['iso3_to_country'] is drawn from: 1..n in order
Configs == {[i \in 1..n |-> i] : n \in 0..MaxIds}

\* ------------------------------------------------------- BrowserManager
StartOutcomes == {"ok", "playwright_raises", "launch_raises",
                  "context_raises", "page_raises"}

\* BrowserManager.start: the four assignments in order; o names the first
\* call that raises (or "ok"). A call that raises leaves its field as it was.
BrowserStart(o) ==
    IF o = "playwright_raises"
    THEN UNCHANGED bmVars
    ELSE /\ hseq' = hseq + 1
         /\ playwright' = hseq + 1
         /\ openPw' = openPw \cup {hseq + 1}
         /\ IF o = "launch_raises"
            THEN UNCHANGED <<browser, openBr>>
            ELSE /\ browser' = hseq + 1
                 /\ openBr' = openBr \cup {hseq + 1}

\* BrowserManager.stop: closes what the fields refer to; the fields keep
\* their values (they are never set back to None).
BrowserStop ==
    /\ openBr' = IF browser # None THEN openBr \ {browser} ELSE openBr
    /\ openPw' = IF playwright # None THEN openPw \ {playwright} ELSE openPw
    /\ UNCHANGED <<playwright, browser, hseq>>

\* ------------------------------------------- SendQueryBot._check_progress
\* variants of _check_progress with a slip in the comparison
check_progress_early(current_count, last_count, stagnant) ==
    LET s == IF current_count = last_count THEN stagnant + 1 ELSE 0
        l == IF current_count = last_count THEN last_count ELSE current_count
    IN  [is_stagnant |-> s >= StagnationThreshold - 1,
         last_count |-> l,
         stagnant_iters |-> s]

check_progress_strict(current_count, last_count, stagnant) ==
    LET s == IF current_count = last_count THEN stagnant + 1 ELSE 0
        l == IF current_count = last_count THEN last_count ELSE current_count
    IN  [is_stagnant |-> s > StagnationThreshold,
         last_count |-> l,
         stagnant_iters |-> s]

check_progress(current_count, last_count, stagnant) ==
    LET s == IF current_count = last_count THEN stagnant + 1 ELSE 0
        l == IF current_count = last_count THEN last_count ELSE current_count
    IN  [is_stagnant |-> s >= StagnationThreshold,
         last_count |-> l,
         stagnant_iters |-> s]

\* --------------------------------------------- SendQueryBot.process_query
PqIdle == /\ undone_countries = <<>> /\ total_count = 0
          /\ last_undone_count = 0 /\ stagnant_iters = 0 /\ iteration = 0
          /\ is_stagnant = FALSE /\ keys = <<>> /\ key = None
          /\ result = "none" /\ attempts = <<>> /\ succeeded = {}
          /\ tried = {}
          /\ sessions = 0 /\ firstFailRun = 0 /\ undoneAtStart = <<>>
          /\ lastLogin = "none" /\ handed = {}

BmIdle == /\ playwright = None /\ browser = None /\ hseq = 0
          /\ openPw = {} /\ openBr = {}

MsIdle == ms_pc = "off" /\ attempt = 0 /\ ms_break = FALSE

NoResult == [is_stagnant |-> FALSE, last_count |-> 0, stagnant_iters |-> 0]

RpIdle == /\ rp_pc = "off" /\ rp_csv = <<>> /\ rp_ledger = <<>>
          /\ rp_marker = <<>> /\ pairs_to_process = <<>>
          /\ failed_pairs = <<>> /\ still_failed = <<>> /\ rp_idx = 0
          /\ success_count = 0 /\ retry_attempt = 0
          /\ no_progress_count = 0 /\ previous_failed_count = 0
          /\ rp_last = "none" /\ rp_runs = 0 /\ rp_worked = {}

LgIdle == /\ processed_ids = {} /\ lg_json = {} /\ lg_csv = {}
          /\ lg_last = "off"

\* the pager row when no row is found (line 150: pages [], no ellipsis)
EmptyRow == [lo |-> 0, hi |-> 0, cur |-> 0, bwd |-> FALSE, fwd |-> FALSE]

PgIdle == /\ pg_pc = "off" /\ page_index = 0 /\ pg_calls = 0
          /\ pg_attempt = 0 /\ pg_row = EmptyRow /\ pg_action = "none"
          /\ pg_success = FALSE /\ pg_raised = FALSE
          /\ pg_all_empty = FALSE

GrIdle == gr_n = 0 /\ gr_w = 0 /\ gr_cur = 0 /\ gr_bot = "none"

ScIdle == /\ current_page_index = 0 /\ target_page = 0 /\ last_page = 0
          /\ sc_susp = {} /\ sc_ret = "none" /\ sc_worked = 0
          /\ sc_err = FALSE /\ sc_runs = 0

DlIdle == dl_count = <<>> /\ dl_stubborn = FALSE /\ dl_clicks = 0

\* no iteration made yet
NoStep == [action |-> "none", then |-> "none"]

EqIdle == eq_manage = NoStep /\ eq_delete = NoStep

GsIdle == GrIdle /\ ScIdle /\ DlIdle /\ EqIdle

NewIdle == RpIdle /\ LgIdle /\ PgIdle /\ GsIdle

CpIdle == /\ cp_current = 0 /\ cp_last = 0 /\ cp_stagnant = 0
          /\ cp_called = FALSE /\ cp_result = NoResult

\* a fresh process about to call process_query (run(), lines 210-221)
Init ==
    /\ pc = "process_query"
    /\ config \in Configs
    /\ done_file = <<>> /\ undone_tasks = {}
    /\ runs = 1 /\ doneAtStart = {}
    /\ PqIdle /\ BmIdle /\ MsIdle /\ CpIdle /\ NewIdle

\* lines 179-185
ProcessQueryBegin ==
    /\ pc = "process_query"
    /\ undone_countries' = config
    /\ total_count' = Len(config)
    /\ last_undone_count' = Len(config)
    /\ stagnant_iters' = 0
    /\ iteration' = 1
    /\ pc' = "while"
    /\ UNCHANGED <<config, is_stagnant, keys, key, result, done_file,
                   undone_tasks, handed, runs, doneAtStart, attempts, succeeded, tried,
                   sessions, firstFailRun, undoneAtStart, lastLogin>>
    /\ UNCHANGED <<bmVars, msVars, cpVars, newVars>>

\* line 186: while undone_countries
WhileTest ==
    /\ pc = "while"
    /\ pc' = IF undone_countries # <<>> THEN "start" ELSE "after_loop"
    /\ UNCHANGED <<config, undone_countries, total_count, last_undone_count,
                   stagnant_iters, iteration, is_stagnant, keys, key, result,
                   done_file, undone_tasks, handed, runs, doneAtStart, attempts,
                   succeeded, tried, sessions, firstFailRun, undoneAtStart, lastLogin>>
    /\ UNCHANGED <<bmVars, msVars, cpVars, newVars>>

\* _run_iteration line 128: browser_manager.start() stands before the try,
\* so an exception of it leaves _run_iteration, process_query and run().
SessionStart ==
    /\ pc = "start"
    /\ \E o \in StartOutcomes :
          /\ BrowserStart(o)
          /\ pc' = IF o = "ok" THEN "login" ELSE "raised"
    /\ attempts' = <<>>
    /\ undoneAtStart' = undone_countries
    /\ lastLogin' = "none"
    /\ UNCHANGED <<config, undone_countries, total_count, last_undone_count,
                   stagnant_iters, iteration, is_stagnant, keys, key, result,
                   done_file, undone_tasks, handed, runs, doneAtStart, succeeded, tried,
                   sessions, firstFailRun>>
    /\ UNCHANGED <<msVars, cpVars, newVars>>

LoginOutcomes == {"ok", "fail", "raise"}

\* a failed login taken for a successful one
AfterLoginIgnoringFalse(r) == IF r = "raise" THEN "finally" ELSE "for"

\* lines 133-138 and 150-153: where _run_iteration goes after login
AfterLogin(r) == IF r = "ok" THEN "for" ELSE "finally"

\* lines 131-138: setup_auto_close_popup and login; "raise" is an exception
\* of either, caught at line 150; "fail" is login returning False (line 136)
Login ==
    /\ pc = "login"
    /\ \E r \in LoginOutcomes :
          /\ lastLogin' = r
          /\ pc' = AfterLogin(r)
          /\ keys' = IF AfterLogin(r) = "for" THEN undone_countries ELSE keys
    /\ UNCHANGED <<config, undone_countries, total_count, last_undone_count,
                   stagnant_iters, iteration, is_stagnant, key, result,
                   done_file, undone_tasks, handed, runs, doneAtStart, attempts,
                   succeeded, tried, sessions, firstFailRun, undoneAtStart>>
    /\ UNCHANGED <<bmVars, msVars, cpVars, newVars>>

\* line 138: for key in list(undone_countries.keys())
ForNext ==
    /\ pc = "for"
    /\ IF keys = <<>>
       THEN pc' = "finally" /\ key' = None /\ keys' = keys
       ELSE pc' = "process_country" /\ key' = Head(keys) /\ keys' = Tail(keys)
    /\ UNCHANGED <<config, undone_countries, total_count, last_undone_count,
                   stagnant_iters, iteration, is_stagnant, result, done_file,
                   undone_tasks, handed, runs, doneAtStart, attempts, succeeded, tried,
                   sessions, firstFailRun, undoneAtStart, lastLogin>>
    /\ UNCHANGED <<bmVars, msVars, cpVars, newVars>>

\* the for loop going on after a failed country
OnFailureContinue == "for"

\* lines 146-148: else: break
OnFailure == "finally"

\* the key deleted whatever process_country returned
AfterCountryAlwaysDel(ok) == "del"

\* lines 142-148: if self.process_country(...): del ... else: break
AfterCountry(ok) == IF ok THEN "del" ELSE OnFailure

\* process_country lines 104-123: the unit of work (process_field_steps)
\* returns True or raises; on success the key is appended to the done file
\* unless that write fails (logged only, line 118); the call returns
\* True/False to line 142, where False breaks the for loop (line 148).
ProcessCountry ==
    /\ pc = "process_country"
    /\ \E ok \in BOOLEAN, written \in BOOLEAN :
          /\ attempts' = Append(attempts, [key |-> key, ok |-> ok])
          /\ IF ok
             THEN /\ done_file' = IF written THEN Append(done_file, key)
                                  ELSE done_file
                  /\ succeeded' = succeeded \cup {key}
             ELSE /\ done_file' = done_file
                  /\ succeeded' = succeeded
          /\ pc' = AfterCountry(ok)
          /\ tried' = tried \cup {key}
    /\ UNCHANGED <<config, undone_countries, total_count, last_undone_count,
                   stagnant_iters, iteration, is_stagnant, keys, key, result,
                   undone_tasks, handed, runs, doneAtStart, sessions, firstFailRun,
                   undoneAtStart, lastLogin>>
    /\ UNCHANGED <<bmVars, msVars, cpVars, newVars>>

\* lines 143-145: del undone_countries[key]; page.wait_for_timeout may raise
\* (caught at line 150), otherwise the for loop goes on
DeleteKey ==
    /\ pc = "del"
    /\ undone_countries' = Remove(undone_countries, key)
    /\ \E raises \in BOOLEAN : pc' = IF raises THEN "finally" ELSE "for"
    /\ UNCHANGED <<config, total_count, last_undone_count, stagnant_iters,
                   iteration, is_stagnant, keys, key, result, done_file,
                   undone_tasks, handed, runs, doneAtStart, attempts, succeeded, tried,
                   sessions, firstFailRun, undoneAtStart, lastLogin>>
    /\ UNCHANGED <<bmVars, msVars, cpVars, newVars>>

\* lines 152-155: finally: browser_manager.stop(); return undone_countries
SessionStop ==
    /\ pc = "finally"
    /\ BrowserStop
    /\ pc' = "check"
    /\ UNCHANGED pqVarsButPc
    /\ UNCHANGED <<msVars, cpVars, newVars>>

\* the break taken whatever _check_progress said
AfterCheckAlwaysBreak(stagnant) == "after_loop"

\* lines 196-200: if is_stagnant: break
AfterCheck(stagnant) == IF stagnant THEN "after_loop" ELSE "while"

\* lines 192-200: _check_progress, break on stagnation, iteration += 1
CheckProgress ==
    /\ pc = "check"
    /\ LET r == check_progress(Len(undone_countries), last_undone_count,
                               stagnant_iters)
       IN  /\ is_stagnant' = r.is_stagnant
           /\ last_undone_count' = r.last_count
           /\ stagnant_iters' = r.stagnant_iters
           /\ pc' = AfterCheck(r.is_stagnant)
           /\ iteration' = IF AfterCheck(r.is_stagnant) = "while"
                            THEN iteration + 1 ELSE iteration
    /\ sessions' = sessions + 1
    /\ firstFailRun' = IF Len(attempts) = 1 /\ ~attempts[1].ok
                       THEN firstFailRun + 1 ELSE 0
    /\ UNCHANGED <<config, undone_countries, total_count, keys, key, result,
                   done_file, undone_tasks, handed, runs, doneAtStart, attempts,
                   succeeded, tried, undoneAtStart, lastLogin>>
    /\ UNCHANGED <<bmVars, msVars, cpVars, newVars>>

\* save_undone_countries, lines 30-51: one file per key, in dict order; an
\* exception (makedirs, open, dump) is caught at line 50 and ends the loop,
\* so only the first `written` keys get their file
save_undone_countries(tasks, undone, written) ==
    tasks \cup {undone[i] : i \in 1..written}

\* full success reported whatever is left
ReturnValueAlwaysTrue(undone) == "True"

\* line 208: return len(undone_countries) == 0
ReturnValue(undone) == IF Len(undone) = 0 THEN "True" ELSE "False"

\* lines 202-208: with keys left, save_undone_countries is called with the
\* work dict; return len(undone_countries) == 0
ProcessQueryEnd ==
    /\ pc = "after_loop"
    /\ IF Len(undone_countries) = 0
       THEN UNCHANGED <<undone_tasks, handed>>
       ELSE /\ handed' = Range(undone_countries)
            /\ \E written \in 0..Len(undone_countries) :
                  undone_tasks' = save_undone_countries(
                                      undone_tasks, undone_countries, written)
    /\ result' = ReturnValue(undone_countries)
    /\ pc' = "returned"
    /\ UNCHANGED <<config, undone_countries, total_count, last_undone_count,
                   stagnant_iters, iteration, is_stagnant, keys, key,
                   done_file, runs, doneAtStart, attempts, succeeded, tried,
                   sessions, firstFailRun, undoneAtStart, lastLogin>>
    /\ UNCHANGED <<bmVars, msVars, cpVars, newVars>>

\* The process is stopped at any point (operator kill, crash, or after its
\* end) and started again: memory is lost, its browser processes end with
\* it, the files stay.
Restart ==
    /\ runs < MaxRuns
    /\ pc \in PqPositions
    /\ runs' = runs + 1
    /\ doneAtStart' = Range(done_file)
    /\ pc' = "process_query"
    /\ undone_countries' = <<>> /\ total_count' = 0
    /\ last_undone_count' = 0 /\ stagnant_iters' = 0 /\ iteration' = 0
    /\ is_stagnant' = FALSE /\ keys' = <<>> /\ key' = None
    /\ result' = "none" /\ attempts' = <<>> /\ succeeded' = {}
    /\ tried' = {}
    /\ sessions' = 0 /\ firstFailRun' = 0 /\ undoneAtStart' = <<>>
    /\ lastLogin' = "none" /\ handed' = {}
    /\ playwright' = None /\ browser' = None /\ hseq' = 0
    /\ openPw' = {} /\ openBr' = {}
    /\ UNCHANGED <<config, done_file, undone_tasks>>
    /\ UNCHANGED <<msVars, cpVars, newVars>>

Step == \/ ProcessQueryBegin \/ WhileTest \/ SessionStart \/ Login
        \/ ForNext \/ ProcessCountry \/ DeleteKey \/ SessionStop
        \/ CheckProgress \/ ProcessQueryEnd

Next == Step \/ Restart

Spec == Init /\ [][Next]_vars


\* one run of process_query with no restart, the bot's thread being the only
\* one and running while it has a step to take
RunSpec == Init /\ [][Step]_vars /\ WF_vars(Step)

\* --------------------------------------------- _check_progress taken alone
PqOff == /\ pc = "off" /\ config = <<>> /\ done_file = <<>>
         /\ undone_tasks = {} /\ runs = 0 /\ doneAtStart = {} /\ PqIdle

CpInit ==
    /\ cp_current \in 0..MaxCount
    /\ cp_last \in 0..MaxCount
    /\ cp_stagnant \in 0..MaxStagnant
    /\ cp_called = FALSE /\ cp_result = NoResult
    /\ PqOff /\ BmIdle /\ MsIdle /\ NewIdle

CpCall ==
    /\ cp_called = FALSE
    /\ cp_called' = TRUE
    /\ cp_result' = check_progress(cp_current, cp_last, cp_stagnant)
    /\ UNCHANGED <<cp_current, cp_last, cp_stagnant>>
    /\ UNCHANGED <<pqVars, bmVars, msVars, newVars>>

CpSpec == CpInit /\ [][CpCall]_vars

\* ------------------------------------------ ManageSuspendedQueriesBot.run
MsInit ==
    /\ ms_pc = "while" /\ attempt = 0 /\ ms_break = FALSE
    /\ PqOff /\ BmIdle /\ CpIdle /\ NewIdle

\* lines 36-38: while attempt < max_retries: attempt += 1; line 90 after it
MsWhile ==
    /\ ms_pc = "while"
    /\ IF attempt < max_retries
       THEN attempt' = attempt + 1 /\ ms_pc' = "start"
       ELSE attempt' = attempt /\ ms_pc' = "final_stop"
    /\ UNCHANGED <<ms_break, pqVars, bmVars, cpVars, newVars>>

\* lines 41-46: start() in its own try; on an exception sleep and continue
\* (the finally of lines 79-88 belongs to the second try and does not run)
MsStart ==
    /\ ms_pc = "start"
    /\ \E o \in StartOutcomes :
          /\ BrowserStart(o)
          /\ ms_pc' = IF o = "ok" THEN "login" ELSE "while"
    /\ UNCHANGED <<attempt, ms_break, pqVars, cpVars, newVars>>

\* lines 50-57 and 71-75: login False -> stop(), continue; an exception of
\* setup_auto_close_popup or login -> except: stop(); both then reach finally
MsLogin ==
    /\ ms_pc = "login"
    /\ \E r \in LoginOutcomes :
          IF r = "ok"
          THEN ms_pc' = "process" /\ UNCHANGED bmVars
          ELSE ms_pc' = "finally" /\ BrowserStop
    /\ UNCHANGED <<attempt, ms_break, pqVars, cpVars, newVars>>

\* lines 60-75: process_suspended_queries (and the 10 s wait) returns, then
\* break; or raises, then except: stop()
MsProcess ==
    /\ ms_pc = "process"
    /\ \E raises \in BOOLEAN :
          IF raises
          THEN ms_break' = FALSE /\ BrowserStop
          ELSE ms_break' = TRUE /\ UNCHANGED bmVars
    /\ ms_pc' = "finally"
    /\ UNCHANGED <<attempt, pqVars, cpVars, newVars>>

\* lines 79-88: finally; page.is_closed() holds once its browser is closed
MsFinally ==
    /\ ms_pc = "finally"
    /\ IF attempt >= max_retries \/ browser \notin openBr
       THEN UNCHANGED bmVars
       ELSE BrowserStop
    /\ ms_pc' = IF ms_break THEN "final_stop" ELSE "while"
    /\ UNCHANGED <<attempt, ms_break, pqVars, cpVars, newVars>>

\* line 90
MsFinalStop ==
    /\ ms_pc = "final_stop"
    /\ BrowserStop
    /\ ms_pc' = "done"
    /\ UNCHANGED <<attempt, ms_break, pqVars, cpVars, newVars>>

MsNext == \/ MsWhile \/ MsStart \/ MsLogin \/ MsProcess \/ MsFinally
          \/ MsFinalStop

MsSpec == MsInit /\ [][MsNext]_vars

\* ---------------------------------------------- ReprocessSuspendedBot.run
RECURSIVE SeqsUpTo(_, _)
\* all sequences over S of length at most n
SeqsUpTo(S, n) ==
    IF n = 0 THEN {<<>>}
    ELSE LET shorter == SeqsUpTo(S, n - 1)
         IN  shorter \cup {Append(q, x) : q \in shorter, x \in S}

unique_pairs_all(rows) == rows

RECURSIVE unique_pairs(_)
\* _load_suspended_pairs, lines 86-107: the first row of each pair, in order
unique_pairs(rows) ==
    IF rows = <<>> THEN <<>>
    ELSE LET front == unique_pairs(SubSeq(rows, 1, Len(rows) - 1))
             last == rows[Len(rows)]
         IN  IF last \in Range(front) THEN front ELSE Append(front, last)

\* lines 181-186: the pairs whose key is not a line of reprocessed_pairs.txt
not_processed(pairs, processed) ==
    SelectSeq(pairs, LAMBDA p : p \notin processed)

RpFrame == UNCHANGED <<pqVars, msVars, cpVars, lgVars, pgVars, gsVars>>

RpInit ==
    /\ rp_pc = "load"
    /\ rp_csv \in SeqsUpTo(1..MaxPairs, MaxRows)
    /\ rp_ledger = <<>> /\ rp_marker = <<>>
    /\ pairs_to_process = <<>> /\ failed_pairs = <<>> /\ still_failed = <<>>
    /\ rp_idx = 0 /\ success_count = 0 /\ retry_attempt = 0
    /\ no_progress_count = 0 /\ previous_failed_count = 0
    /\ rp_last = "none" /\ rp_runs = 1 /\ rp_worked = {}
    /\ PqOff /\ BmIdle /\ MsIdle /\ CpIdle /\ LgIdle /\ PgIdle /\ GsIdle

\* lines 171-192: load both files, filter, return early when nothing is left
RpLoad ==
    /\ rp_pc = "load"
    /\ LET todo == not_processed(unique_pairs(rp_csv), Range(rp_ledger))
       IN  /\ pairs_to_process' = todo
           /\ rp_pc' = IF todo = <<>> THEN "done" ELSE "start"
    /\ UNCHANGED <<rp_csv, rp_ledger, rp_marker, failed_pairs, still_failed,
                   rp_idx, success_count, retry_attempt, no_progress_count,
                   previous_failed_count, rp_last, rp_runs, rp_worked>>
    /\ UNCHANGED bmVars /\ RpFrame

\* line 195: browser_manager.start() before the try
RpStart ==
    /\ rp_pc = "start"
    /\ \E o \in StartOutcomes :
          /\ BrowserStart(o)
          /\ rp_pc' = IF o = "ok" THEN "login" ELSE "raised"
    /\ UNCHANGED <<rp_csv, rp_ledger, rp_marker, pairs_to_process,
                   failed_pairs, still_failed, rp_idx, success_count,
                   retry_attempt, no_progress_count, previous_failed_count,
                   rp_last, rp_runs, rp_worked>>
    /\ RpFrame

\* lines 198-210: login False returns through the finally; an exception is
\* caught at line 305; otherwise the initial pass begins
RpLogin ==
    /\ rp_pc = "login"
    /\ \E r \in LoginOutcomes :
          rp_pc' = IF r = "ok" THEN "pass" ELSE "finally"
    /\ rp_idx' = 1
    /\ success_count' = 0
    /\ failed_pairs' = <<>>
    /\ UNCHANGED <<rp_csv, rp_ledger, rp_marker, pairs_to_process,
                   still_failed, retry_attempt, no_progress_count,
                   previous_failed_count, rp_last, rp_runs, rp_worked>>
    /\ UNCHANGED bmVars /\ RpFrame

\* what one turn of a for loop over pairs can meet:
\*   ok           process_pair True, _mark_as_processed written
\*   unit_fail    a step of process_pair failed (lines 130-146)
\*   marker_fail  the write of lines 152-156 raised inside process_pair's try
\*   ledger_raise process_pair True, _mark_as_processed raised (lines 51-54)
PairOutcomes == {"ok", "unit_fail", "marker_fail", "ledger_raise"}

\* process_pair, lines 127-162
process_pair(o) == o \in {"ok", "ledger_raise"}

\* lines 212-226: one turn of the initial pass
RpPassItem ==
    /\ rp_pc = "pass"
    /\ LET p == pairs_to_process[rp_idx]
           n == Len(pairs_to_process)
       IN  \E o \in PairOutcomes, wait_raises \in BOOLEAN :
             /\ rp_last' = o
             /\ rp_marker' = IF process_pair(o) THEN Append(rp_marker, p)
                             ELSE rp_marker
             /\ rp_ledger' = IF o = "ok" THEN Append(rp_ledger, p)
                             ELSE rp_ledger
             /\ success_count' = IF o = "ok" THEN success_count + 1
                                 ELSE success_count
             /\ failed_pairs' = IF process_pair(o) THEN failed_pairs
                                ELSE Append(failed_pairs, p)
             /\ rp_worked' = IF o = "unit_fail" THEN rp_worked
                              ELSE rp_worked \cup {p}
             /\ IF o = "ledger_raise" \/ (wait_raises /\ rp_idx < n)
                THEN rp_pc' = "finally" /\ rp_idx' = rp_idx
                ELSE /\ rp_idx' = rp_idx + 1
                     /\ rp_pc' = IF rp_idx < n THEN "pass" ELSE "retry_init"
    /\ UNCHANGED <<rp_csv, pairs_to_process, still_failed, retry_attempt,
                   no_progress_count, previous_failed_count, rp_runs>>
    /\ UNCHANGED bmVars /\ RpFrame

\* lines 236-239
RpRetryInit ==
    /\ rp_pc = "retry_init"
    /\ retry_attempt' = 0
    /\ no_progress_count' = 0
    /\ previous_failed_count' = Len(failed_pairs)
    /\ rp_pc' = "retry_while"
    /\ UNCHANGED <<rp_csv, rp_ledger, rp_marker, pairs_to_process,
                   failed_pairs, still_failed, rp_idx, success_count,
                   rp_last, rp_runs, rp_worked>>
    /\ UNCHANGED bmVars /\ RpFrame

\* lines 241-250
RpRetryWhile ==
    /\ rp_pc = "retry_while"
    /\ IF failed_pairs # <<>> /\ no_progress_count < max_no_progress_attempts
       THEN /\ retry_attempt' = retry_attempt + 1
            /\ still_failed' = <<>>
            /\ rp_idx' = 1
            /\ rp_pc' = "retry"
       ELSE /\ UNCHANGED <<retry_attempt, still_failed, rp_idx>>
            /\ rp_pc' = "summary"
    /\ UNCHANGED <<rp_csv, rp_ledger, rp_marker, pairs_to_process,
                   failed_pairs, success_count, no_progress_count,
                   previous_failed_count, rp_last, rp_runs, rp_worked>>
    /\ UNCHANGED bmVars /\ RpFrame

\* lines 252-266: one turn of a retry pass
RpRetryItem ==
    /\ rp_pc = "retry"
    /\ LET p == failed_pairs[rp_idx]
           n == Len(failed_pairs)
       IN  \E o \in PairOutcomes, wait_raises \in BOOLEAN :
             /\ rp_last' = o
             /\ rp_marker' = IF process_pair(o) THEN Append(rp_marker, p)
                             ELSE rp_marker
             /\ rp_ledger' = IF o = "ok" THEN Append(rp_ledger, p)
                             ELSE rp_ledger
             /\ still_failed' = IF process_pair(o) THEN still_failed
                                ELSE Append(still_failed, p)
             /\ rp_worked' = IF o = "unit_fail" THEN rp_worked
                              ELSE rp_worked \cup {p}
             /\ IF o = "ledger_raise" \/ (wait_raises /\ rp_idx < n)
                THEN rp_pc' = "finally" /\ rp_idx' = rp_idx
                ELSE /\ rp_idx' = rp_idx + 1
                     /\ rp_pc' = IF rp_idx < n THEN "retry" ELSE "retry_check"
    /\ UNCHANGED <<rp_csv, pairs_to_process, failed_pairs, success_count,
                   retry_attempt, no_progress_count, previous_failed_count,
                   rp_runs>>
    /\ UNCHANGED bmVars /\ RpFrame

no_progress_always(still, previous) == TRUE

\* line 272: the pass left as many failed pairs as the one before
no_progress(still, previous) == Len(still) = previous

\* lines 271-286
RpRetryCheck ==
    /\ rp_pc = "retry_check"
    /\ IF no_progress(still_failed, previous_failed_count)
       THEN /\ no_progress_count' = no_progress_count + 1
            /\ IF no_progress_count + 1 >= max_no_progress_attempts
               THEN /\ rp_pc' = "summary"
                    /\ UNCHANGED previous_failed_count
               ELSE /\ rp_pc' = "retry_while"
                    /\ previous_failed_count' = Len(still_failed)
       ELSE /\ no_progress_count' = 0
            /\ rp_pc' = "retry_while"
            /\ previous_failed_count' = Len(still_failed)
    /\ failed_pairs' = still_failed
    /\ UNCHANGED <<rp_csv, rp_ledger, rp_marker, pairs_to_process,
                   still_failed, rp_idx, success_count, retry_attempt,
                   rp_last, rp_runs, rp_worked>>
    /\ UNCHANGED bmVars /\ RpFrame

\* lines 289-303: the final summary
RpSummary ==
    /\ rp_pc = "summary"
    /\ rp_pc' = "finally"
    /\ UNCHANGED <<rp_csv, rp_ledger, rp_marker, pairs_to_process,
                   failed_pairs, still_failed, rp_idx, success_count,
                   retry_attempt, no_progress_count, previous_failed_count,
                   rp_last, rp_runs, rp_worked>>
    /\ UNCHANGED bmVars /\ RpFrame

\* lines 308-309
RpFinally ==
    /\ rp_pc = "finally"
    /\ BrowserStop
    /\ rp_pc' = "done"
    /\ UNCHANGED <<rp_csv, rp_ledger, rp_marker, pairs_to_process,
                   failed_pairs, still_failed, rp_idx, success_count,
                   retry_attempt, no_progress_count, previous_failed_count,
                   rp_last, rp_runs, rp_worked>>
    /\ RpFrame

\* the bot is stopped at any point, or has ended, and is started again: the
\* files stay, memory and browser are new
RpRestart ==
    /\ rp_runs < MaxRpRuns
    /\ rp_pc # "off"
    /\ rp_runs' = rp_runs + 1
    /\ rp_pc' = "load"
    /\ pairs_to_process' = <<>> /\ failed_pairs' = <<>>
    /\ still_failed' = <<>> /\ rp_idx' = 0 /\ success_count' = 0
    /\ retry_attempt' = 0 /\ no_progress_count' = 0
    /\ previous_failed_count' = 0 /\ rp_last' = "none"
    /\ rp_worked' = {}
    /\ playwright' = None /\ browser' = None /\ hseq' = 0
    /\ openPw' = {} /\ openBr' = {}
    /\ UNCHANGED <<rp_csv, rp_ledger, rp_marker>>
    /\ RpFrame

RpStep == \/ RpLoad \/ RpStart \/ RpLogin \/ RpPassItem \/ RpRetryInit
          \/ RpRetryWhile \/ RpRetryItem \/ RpRetryCheck \/ RpSummary
          \/ RpFinally

RpNext == RpStep \/ RpRestart

RpSpec == RpInit /\ [][RpNext]_vars

\* one run of the bot, every step of it taken in the end
RpRunSpec == RpInit /\ [][RpStep]_vars /\ WF_vars(RpStep)


\* ------------------ ManageSuspendedQueriesBot: the ledger of processed ids
QueryIds == 1..MaxQueryIds

\* _load_processed_ids, lines 671-703: the csv rows carrying data, merged
\* with every record of the json file; a file that cannot be read is skipped
load_processed_ids(csv, json, csv_ok, json_ok) ==
    (IF csv_ok THEN {r.id : r \in {x \in csv : x.found}} ELSE {})
        \cup (IF json_ok THEN json ELSE {})

\* what both files hold when they are read without error
LedgerIds == load_processed_ids(lg_csv, lg_json, TRUE, TRUE)

\* outcomes of open(json_file, 'w') / json.dump, lines 742-743
JsonWriteOutcomes == {"ok", "raises", "raises_truncated"}

\* __init__, lines 16-27, on an empty output directory
LgInit ==
    /\ processed_ids = {} /\ lg_json = {} /\ lg_csv = {}
    /\ lg_last = "load"
    /\ PqOff /\ BmIdle /\ MsIdle /\ CpIdle /\ RpIdle /\ PgIdle /\ GsIdle

\* lines 584/588 behind the skip of line 411, then _save_suspended_details,
\* lines 705-762
LgSave ==
    /\ lg_last # "off"
    /\ \E id \in QueryIds \ processed_ids, found \in BOOLEAN,
          read_ok \in BOOLEAN, write \in JsonWriteOutcomes,
          csv_ok \in BOOLEAN :
        LET data == IF read_ok THEN lg_json ELSE {}
            row == [id |-> id, found |-> found]
            append == IF csv_ok THEN lg_csv \cup {row} ELSE lg_csv
        IN  /\ processed_ids' = processed_ids \cup {id}
            /\ IF id \in data
               THEN /\ lg_json' = lg_json
                    /\ lg_csv' = append
               ELSE /\ lg_json' = CASE write = "ok" -> data \cup {id}
                                    [] write = "raises" -> lg_json
                                    [] OTHER -> {}
                    /\ lg_csv' = IF write = "ok" THEN append ELSE lg_csv
    /\ lg_last' = "save"
    /\ UNCHANGED <<pqVars, bmVars, msVars, cpVars, rpVars, pgVars, gsVars>>

\* a new process: __init__ line 26
LgRestart ==
    /\ lg_last # "off"
    /\ \E csv_ok \in BOOLEAN, json_ok \in BOOLEAN :
          processed_ids' = load_processed_ids(lg_csv, lg_json, csv_ok, json_ok)
    /\ lg_last' = "load"
    /\ UNCHANGED <<lg_json, lg_csv>>
    /\ UNCHANGED <<pqVars, bmVars, msVars, cpVars, rpVars, pgVars, gsVars>>

LgNext == LgSave \/ LgRestart

LgSpec == LgInit /\ [][LgNext]_vars


\* ----- ManageSuspendedQueriesBot / DeleteQueriesBot: the pager and the scan
\* (_do_pagination_logic is the same code in both bots: lines 129-238 of
\* manage_suspended_queries_bot.py, lines 78-183 of delete_queries_bot.py)

\* A pager row shows the consecutive pages lo..hi; the current page cur is a
\* span, every other page an anchor; an anchor '...' may precede the pages
\* (bwd) and one may follow them (fwd).
Rows ==
    {EmptyRow} \cup
    {r \in [lo : 1..MaxPage, hi : 1..MaxPage, cur : 1..MaxPage,
            bwd : BOOLEAN, fwd : BOOLEAN] : r.lo <= r.cur /\ r.cur <= r.hi}

\* lines 151-152, 157: the numbers among 'td span, td a'
visible_pages(row) == IF row.lo = 0 THEN {} ELSE row.lo..row.hi

\* row.querySelectorAll('a'), in document order
anchors(row) ==
    IF row.lo = 0 THEN <<>>
    ELSE (IF row.bwd THEN <<Ellipsis>> ELSE <<>>)
         \o SelectSeq([i \in 1..(row.hi - row.lo + 1) |-> row.lo + i - 1],
                      LAMBDA p : p # row.cur)
         \o (IF row.fwd THEN <<Ellipsis>> ELSE <<>>)

\* line 153
has_ellipsis(row) == \E i \in DOMAIN anchors(row) : anchors(row)[i] = Ellipsis

\* lines 188-197: the last anchor of the row is a '...'
can_go_forward(row) ==
    LET a == anchors(row) IN Len(a) > 0 /\ a[Len(a)] = Ellipsis

\* lines 213-216: the '...' anchors of the row, each named by what a click
\* on it does to the window
ellipses(row) ==
    (IF row.bwd THEN <<"ExpandBackward">> ELSE <<>>)
    \o (IF row.fwd THEN <<"ExpandForward">> ELSE <<>>)

\* lines 211-222: index -1 clicks the last '...', any other the first
click_ellipsis(row, idx) ==
    LET e == ellipses(row)
    IN  IF Len(e) = 0 THEN "none"
        ELSE IF idx = -1 THEN e[Len(e)] ELSE e[1]

JumpResultContinue == "continue"

\* line 179
JumpResult == "True"

\* one iteration of the for loop, lines 135-233, on the snapshot row with
\* loop index att: what is done to the page and how the iteration ends.
\* The click of lines 169-176 acts on an anchor only: on the current page
\* the Jump leaves the page as it is.
pagination_step(t, row, att) ==
    LET pages == visible_pages(row)
    IN  IF pages = {}
        THEN [action |-> "Wait", then |-> "continue"]
        ELSE IF t \in pages
        THEN [action |-> "Jump", then |-> JumpResult]
        ELSE IF has_ellipsis(row)
        THEN IF t > row.hi
             THEN IF ~can_go_forward(row)
                  THEN [action |-> "none", then |-> "False"]
                  ELSE [action |-> click_ellipsis(row, -1),
                        then |-> "continue"]
             ELSE [action |-> click_ellipsis(row, 0), then |-> "continue"]
        ELSE IF t > row.hi
        THEN [action |-> "none", then |-> "False"]
        ELSE IF att > 5
        THEN [action |-> "none", then |-> "break"]
        ELSE [action |-> "Wait", then |-> "continue"]

more_attempts_extra(att) == att < max_attempts

\* line 135: the for loop has another iteration after the one of index att
more_attempts(att) == att + 1 < max_attempts

PgFrame == UNCHANGED <<pqVars, bmVars, msVars, cpVars, rpVars, lgVars, gsVars>>

\* process_suspended_queries, lines 266-321, with no saved page
PgInit ==
    /\ pg_pc = "handle" /\ page_index = 1 /\ pg_calls = 0
    /\ pg_attempt = 0 /\ pg_row = EmptyRow /\ pg_action = "none"
    /\ pg_success = FALSE /\ pg_raised = FALSE /\ pg_all_empty = FALSE
    /\ PqOff /\ BmIdle /\ MsIdle /\ CpIdle /\ RpIdle /\ LgIdle /\ GsIdle

\* lines 327-329 and _handle_pagination up to its first call, lines 108-116
HpBegin ==
    /\ pg_pc = "handle"
    /\ IF page_index = 1
       THEN pg_pc' = "handled" /\ pg_success' = TRUE /\ pg_calls' = 0
       ELSE pg_pc' = "loop" /\ pg_success' = FALSE /\ pg_calls' = 1
    /\ pg_attempt' = 0 /\ pg_row' = EmptyRow /\ pg_action' = "none"
    /\ pg_raised' = FALSE /\ pg_all_empty' = FALSE
    /\ UNCHANGED page_index
    /\ PgFrame

\* _do_pagination_logic: one iteration of the for loop, lines 135-233, and
\* the return that follows it (lines 179, 203, 228, 235, 238). A driver call
\* may raise before the snapshot is read, or after the page was acted on;
\* the except clause of line 236 then returns False.
PgAttempt ==
    /\ pg_pc = "loop"
    /\ pg_attempt' = pg_attempt + 1
    /\ \/ /\ pg_action' = "none" /\ pg_success' = FALSE
          /\ pg_raised' = TRUE /\ pg_pc' = "returned"
          /\ pg_all_empty' = FALSE
          /\ UNCHANGED pg_row
       \/ \E row \in Rows, raises \in BOOLEAN :
            LET d == pagination_step(page_index, row, pg_attempt)
                first == pg_calls = 1 /\ pg_attempt = 0
            IN  /\ raises => d.action # "none"
                /\ pg_row' = row
                /\ pg_action' = d.action
                /\ pg_raised' = raises
                /\ pg_all_empty' = /\ row = EmptyRow /\ ~raises
                                   /\ first \/ pg_all_empty
                /\ pg_success' = (~raises /\ d.then = "True")
                /\ pg_pc' = IF /\ ~raises
                               /\ d.then = "continue"
                               /\ more_attempts(pg_attempt)
                            THEN "loop" ELSE "returned"
    /\ UNCHANGED <<page_index, pg_calls>>
    /\ PgFrame

\* _handle_pagination after a call, lines 118-127: one hard refresh and a
\* second call when the first failed
HpReturn ==
    /\ pg_pc = "returned"
    /\ IF pg_success \/ pg_calls = 2
       THEN pg_pc' = "handled" /\ UNCHANGED <<pg_calls, pg_attempt>>
       ELSE \E refreshed \in BOOLEAN :
              IF refreshed
              THEN pg_pc' = "loop" /\ pg_calls' = 2 /\ pg_attempt' = 0
              ELSE pg_pc' = "handled" /\ UNCHANGED <<pg_calls, pg_attempt>>
    /\ UNCHANGED <<page_index, pg_row, pg_action, pg_success, pg_raised,
                   pg_all_empty>>
    /\ PgFrame

\* process_suspended_queries, lines 329-331
PgCaller ==
    /\ pg_pc = "handled"
    /\ pg_pc' = IF pg_success THEN "scan_page" ELSE "pagination_failed"
    /\ UNCHANGED <<page_index, pg_calls, pg_attempt, pg_row, pg_action,
                   pg_success, pg_raised, pg_all_empty>>
    /\ PgFrame

\* process_suspended_queries, lines 333-669: the page is skipped (line 373)
\* or scanned (line 669), or it has no data row (line 388)
PgScanPage ==
    /\ pg_pc = "scan_page"
    /\ \E has_rows \in BOOLEAN :
          IF has_rows /\ page_index <= MaxPage
          THEN pg_pc' = "handle" /\ page_index' = page_index + 1
          ELSE pg_pc' = "no_rows" /\ UNCHANGED page_index
    /\ UNCHANGED <<pg_calls, pg_attempt, pg_row, pg_action, pg_success,
                   pg_raised, pg_all_empty>>
    /\ PgFrame

PgNext == HpBegin \/ PgAttempt \/ HpReturn \/ PgCaller \/ PgScanPage

PgSpec == PgInit /\ [][PgNext]_vars /\ WF_vars(PgNext)

\* ------------------------- the resolver against a grid of gr_n pages
\* The pager of the results grid (a .NET GridView, as the comments of lines
\* 186-187 say) shows the pages in blocks of gr_w buttons: the block of the
\* current page, a '...' before it when an earlier block exists and a '...'
\* after it when a later one does.
GridRow(n, w, cur) ==
    LET first == ((cur - 1) \div w) * w + 1
        last == IF first + w - 1 < n THEN first + w - 1 ELSE n
    IN  [lo |-> first, hi |-> last, cur |-> cur,
         bwd |-> first > 1, fwd |-> last < n]

\* the page the grid shows after the action of an iteration: a page link
\* opens its page, the '...' after the block opens the next page, the '...'
\* before it the page before the block
GridAfter(row, action, t) ==
    CASE action = "Jump" -> t
      [] action = "ExpandForward" -> row.hi + 1
      [] action = "ExpandBackward" -> row.lo - 1
      [] OTHER -> row.cur

\* SendDownloadQueryBot._do_pagination_logic, lines 88-162 of
\* send_download_query_bot.py: one iteration of the for loop
pagination_step_download(t, row, att) ==
    LET pages == visible_pages(row)
    IN  IF pages = {}
        THEN [action |-> "Wait", then |-> "continue"]
        ELSE IF t \in pages
        THEN [action |-> "Jump", then |-> JumpResult]
        ELSE IF has_ellipsis(row)
        THEN IF t > row.hi
             THEN [action |-> click_ellipsis(row, -1), then |-> "continue"]
             ELSE [action |-> click_ellipsis(row, 0), then |-> "continue"]
        ELSE IF att > 5
        THEN [action |-> "none", then |-> "break"]
        ELSE [action |-> "Wait", then |-> "continue"]

Bots == {"manage", "download"}

\* the iteration of the bot that runs; DeleteQueriesBot has the code of
\* ManageSuspendedQueriesBot
bot_step(bot, t, row, att) ==
    IF bot = "download" THEN pagination_step_download(t, row, att)
    ELSE pagination_step(t, row, att)

GrFrame == UNCHANGED <<pqVars, bmVars, msVars, cpVars, rpVars, lgVars,
                       scVars, dlVars, eqVars>>

\* a call of _handle_pagination(page, page_index) on the view of page 1
GrInit ==
    /\ gr_n \in 1..MaxGridPages /\ gr_w \in 1..MaxButtons
    /\ gr_bot \in Bots /\ gr_cur = 1
    /\ page_index \in 1..(gr_n + 1)
    /\ pg_pc = "handle" /\ pg_calls = 0
    /\ pg_attempt = 0 /\ pg_row = EmptyRow /\ pg_action = "none"
    /\ pg_success = FALSE /\ pg_raised = FALSE /\ pg_all_empty = FALSE
    /\ PqOff /\ BmIdle /\ MsIdle /\ CpIdle /\ RpIdle /\ LgIdle
    /\ ScIdle /\ DlIdle /\ EqIdle

\* _do_pagination_logic: one iteration of the for loop on the row the grid
\* shows, and the return that follows it
GrAttempt ==
    /\ pg_pc = "loop" /\ gr_n > 0
    /\ LET row == GridRow(gr_n, gr_w, gr_cur)
           d == bot_step(gr_bot, page_index, row, pg_attempt)
       IN  /\ pg_row' = row
           /\ pg_action' = d.action
           /\ pg_success' = (d.then = "True")
           /\ gr_cur' = GridAfter(row, d.action, page_index)
           /\ pg_pc' = IF d.then = "continue" /\ more_attempts(pg_attempt)
                       THEN "loop" ELSE "returned"
    /\ pg_attempt' = pg_attempt + 1
    /\ pg_raised' = FALSE /\ pg_all_empty' = FALSE
    /\ UNCHANGED <<page_index, pg_calls, gr_n, gr_w, gr_bot>>
    /\ GrFrame

\* _handle_pagination after a call: the hard refresh shows page 1 again
GrReturn ==
    /\ pg_pc = "returned" /\ gr_n > 0
    /\ IF pg_success \/ pg_calls = 2
       THEN /\ pg_pc' = "handled"
            /\ UNCHANGED <<pg_calls, pg_attempt, gr_cur>>
       ELSE /\ pg_pc' = "loop" /\ pg_calls' = 2 /\ pg_attempt' = 0
            /\ gr_cur' = 1
    /\ UNCHANGED <<page_index, pg_row, pg_action, pg_success, pg_raised,
                   pg_all_empty, gr_n, gr_w, gr_bot>>
    /\ GrFrame

GrNext == HpBegin \/ GrAttempt \/ GrReturn

GrSpec == GrInit /\ [][GrNext]_vars /\ WF_vars(GrNext)

\* ---------- ManageSuspendedQueriesBot.process_suspended_queries on a grid
\* The grid has gr_n pages; page p holds one query, of id p, and the pages of
\* sc_susp hold a suspended one.

\* _load_last_page, lines 240-248: 1 when the file is absent (0 here)
load_last_page(file) == IF file = 0 THEN 1 ELSE file

already_processed_never(id, done) == FALSE

\* lines 364 and 411
already_processed(id, done) == id \in done

\* opening the Log of a row and saving its details (lines 415-661): saved,
\* or an error that the handler of line 663 logs
RowOutcomes == {"saved", "error"}

ScFrame == UNCHANGED <<pqVars, bmVars, msVars, cpVars, rpVars, dlVars,
                       eqVars>>

ScInit ==
    /\ gr_n \in 1..MaxScanPages /\ gr_w \in 1..MaxButtons
    /\ gr_bot = "manage" /\ gr_cur = 1
    /\ sc_susp \in SUBSET (1..gr_n)
    /\ processed_ids \in SUBSET sc_susp
    /\ last_page \in 0..(gr_n + 1)
    /\ current_page_index = 0 /\ target_page = 0 /\ sc_ret = "none"
    /\ sc_worked = 0 /\ sc_err = FALSE /\ sc_runs = 1
    /\ pg_pc = "begin" /\ page_index = 0 /\ pg_calls = 0
    /\ pg_attempt = 0 /\ pg_row = EmptyRow /\ pg_action = "none"
    /\ pg_success = FALSE /\ pg_raised = FALSE /\ pg_all_empty = FALSE
    /\ lg_json = {} /\ lg_csv = {} /\ lg_last = "off"
    /\ PqOff /\ BmIdle /\ MsIdle /\ CpIdle /\ RpIdle /\ DlIdle /\ EqIdle

\* lines 262-270
ScBegin ==
    /\ pg_pc = "begin"
    /\ \E navigated \in BOOLEAN :
          IF navigated
          THEN /\ current_page_index' = 1
               /\ target_page' = load_last_page(last_page)
               /\ pg_pc' = IF load_last_page(last_page) > 1
                           THEN "resume" ELSE "top"
               /\ UNCHANGED sc_err
          ELSE /\ pg_pc' = "ended" /\ sc_err' = TRUE
               /\ UNCHANGED <<current_page_index, target_page>>
    /\ gr_cur' = 1
    /\ UNCHANGED <<gr_n, gr_w, gr_bot, last_page, sc_susp, sc_ret, sc_worked,
                   sc_runs, page_index, pg_calls, pg_attempt, pg_row,
                   pg_action, pg_success, pg_raised, pg_all_empty>>
    /\ UNCHANGED lgVars /\ ScFrame

\* lines 272-280: the test of the while loop and the call
ScResumeCall ==
    /\ pg_pc = "resume"
    /\ IF current_page_index < target_page
       THEN pg_pc' = "handle" /\ page_index' = target_page
            /\ sc_ret' = "resume"
       ELSE pg_pc' = "top" /\ UNCHANGED <<page_index, sc_ret>>
    /\ UNCHANGED <<current_page_index, target_page, last_page, sc_susp,
                   sc_worked, sc_err, sc_runs, pg_calls, pg_attempt, pg_row,
                   pg_action, pg_success, pg_raised, pg_all_empty>>
    /\ UNCHANGED <<grVars, lgVars>> /\ ScFrame

\* lines 280-283 and 304-319: break on success, otherwise loop
ScResumeReturn ==
    /\ pg_pc = "handled" /\ sc_ret = "resume"
    /\ IF pg_success
       THEN pg_pc' = "top" /\ current_page_index' = target_page
       ELSE pg_pc' = "resume" /\ UNCHANGED current_page_index
    /\ UNCHANGED <<target_page, last_page, sc_susp, sc_ret, sc_worked,
                   sc_err, sc_runs, page_index, pg_calls, pg_attempt, pg_row,
                   pg_action, pg_success, pg_raised, pg_all_empty>>
    /\ UNCHANGED <<grVars, lgVars>> /\ ScFrame

\* lines 321-329: checkpoint, then the call for the current page
ScTop ==
    /\ pg_pc = "top"
    /\ last_page' = current_page_index
    /\ page_index' = current_page_index
    /\ sc_ret' = "top"
    /\ pg_pc' = "handle"
    /\ UNCHANGED <<current_page_index, target_page, sc_susp, sc_worked,
                   sc_err, sc_runs, pg_calls, pg_attempt, pg_row, pg_action,
                   pg_success, pg_raised, pg_all_empty>>
    /\ UNCHANGED <<grVars, lgVars>> /\ ScFrame

\* lines 329-331
ScTopReturn ==
    /\ pg_pc = "handled" /\ sc_ret = "top"
    /\ pg_pc' = IF pg_success THEN "rows" ELSE "ended"
    /\ UNCHANGED <<current_page_index, target_page, last_page, sc_susp,
                   sc_ret, sc_worked, sc_err, sc_runs, page_index, pg_calls,
                   pg_attempt, pg_row, pg_action, pg_success, pg_raised,
                   pg_all_empty>>
    /\ UNCHANGED <<grVars, lgVars>> /\ ScFrame

\* lines 333-669 on the page the grid shows: the row of a suspended query is
\* skipped when its id is in processed_ids (lines 364-374 and 411-413),
\* otherwise its Log is opened; an error of the row is logged (line 663) and
\* the page index advances all the same (line 669)
ScRows ==
    /\ pg_pc = "rows"
    /\ IF gr_cur \in sc_susp /\ ~already_processed(gr_cur, processed_ids)
       THEN \E outcome \in RowOutcomes :
              /\ sc_worked' = gr_cur
              /\ processed_ids' = IF outcome = "saved"
                                  THEN processed_ids \cup {gr_cur}
                                  ELSE processed_ids
              /\ sc_err' = (sc_err \/ outcome = "error")
       ELSE sc_worked' = 0 /\ UNCHANGED <<processed_ids, sc_err>>
    /\ current_page_index' = current_page_index + 1
    /\ pg_pc' = "top"
    /\ UNCHANGED <<target_page, last_page, sc_susp, sc_ret, sc_runs,
                   page_index, pg_calls, pg_attempt, pg_row, pg_action,
                   pg_success, pg_raised, pg_all_empty>>
    /\ UNCHANGED <<grVars, lg_json, lg_csv, lg_last>> /\ ScFrame

\* the process is stopped at any point and started again (run, lines 30-90):
\* the ledger and last_page.txt are what the files hold
ScRestart ==
    /\ pg_pc # "begin" /\ sc_runs < MaxScRuns
    /\ sc_runs' = sc_runs + 1
    /\ pg_pc' = "begin"
    /\ current_page_index' = 0 /\ target_page' = 0 /\ sc_ret' = "none"
    /\ sc_worked' = 0 /\ sc_err' = FALSE
    /\ gr_cur' = 1
    /\ page_index' = 0 /\ pg_calls' = 0 /\ pg_attempt' = 0
    /\ pg_row' = EmptyRow /\ pg_action' = "none" /\ pg_success' = FALSE
    /\ pg_raised' = FALSE /\ pg_all_empty' = FALSE
    /\ UNCHANGED <<gr_n, gr_w, gr_bot, last_page, sc_susp>>
    /\ UNCHANGED lgVars /\ ScFrame

\* run, lines 60-69: process_suspended_queries returned, the attempt is
\* logged as completed successfully and the retry loop is left
ScRunEnd ==
    /\ pg_pc = "ended"
    /\ pg_pc' = "success"
    /\ UNCHANGED <<page_index, pg_calls, pg_attempt, pg_row, pg_action,
                   pg_success, pg_raised, pg_all_empty>>
    /\ UNCHANGED <<grVars, scVars, lgVars>> /\ ScFrame

ScStep ==
    \/ ScBegin \/ ScResumeCall \/ ScResumeReturn \/ ScTop \/ ScTopReturn
    \/ ScRows \/ ScRunEnd \/ HpBegin \/ GrAttempt \/ GrReturn

ScNext == ScStep \/ ScRestart

ScSpec == ScInit /\ [][ScNext]_vars /\ WF_vars(ScStep)

\* ---------- DeleteQueriesBot.process_deletion on a grid
\* Page p of the grid shows dl_count[p] delete buttons. The site removes the
\* row of a clicked button, or (dl_stubborn) never does.

DlFrame == UNCHANGED <<pqVars, bmVars, msVars, cpVars, rpVars, lgVars,
                       eqVars>>

DlInit ==
    /\ gr_n \in 1..MaxScanPages /\ gr_w \in 1..MaxButtons
    /\ gr_bot = "delete" /\ gr_cur = 1
    /\ dl_count \in [1..gr_n -> 0..MaxDelete]
    /\ dl_stubborn \in BOOLEAN
    /\ dl_clicks = 0
    /\ current_page_index = 0 /\ target_page = 0 /\ last_page = 0
    /\ sc_susp = {} /\ sc_ret = "none" /\ sc_worked = 0
    /\ sc_err = FALSE /\ sc_runs = 0
    /\ pg_pc = "begin" /\ page_index = 0 /\ pg_calls = 0
    /\ pg_attempt = 0 /\ pg_row = EmptyRow /\ pg_action = "none"
    /\ pg_success = FALSE /\ pg_raised = FALSE /\ pg_all_empty = FALSE
    /\ PqOff /\ BmIdle /\ MsIdle /\ CpIdle /\ RpIdle /\ LgIdle /\ EqIdle

DlKeep == UNCHANGED <<target_page, last_page, sc_susp, sc_worked, sc_runs,
                      pg_calls, pg_attempt, pg_row, pg_action, pg_success,
                      pg_raised, pg_all_empty, gr_n, gr_w, gr_bot,
                      dl_stubborn>>

\* lines 189-208
DlBegin ==
    /\ pg_pc = "begin"
    /\ \E navigated \in BOOLEAN :
          IF navigated
          THEN pg_pc' = "top" /\ current_page_index' = 1
               /\ UNCHANGED sc_err
          ELSE pg_pc' = "ended" /\ sc_err' = TRUE
               /\ UNCHANGED current_page_index
    /\ gr_cur' = 1
    /\ UNCHANGED <<page_index, sc_ret, dl_count, dl_clicks>>
    /\ DlKeep /\ DlFrame

\* line 214: the call
DlTop ==
    /\ pg_pc = "top"
    /\ page_index' = current_page_index
    /\ sc_ret' = "delete"
    /\ pg_pc' = "handle"
    /\ UNCHANGED <<current_page_index, sc_err, gr_cur, dl_count, dl_clicks>>
    /\ DlKeep /\ DlFrame

\* lines 214-216
DlReturn ==
    /\ pg_pc = "handled" /\ sc_ret = "delete"
    /\ pg_pc' = IF pg_success THEN "inner" ELSE "ended"
    /\ UNCHANGED <<current_page_index, page_index, sc_ret, sc_err, gr_cur,
                   dl_count, dl_clicks>>
    /\ DlKeep /\ DlFrame

\* the buttons a click of Delete leaves on the page
after_click(count, stubborn) == IF stubborn THEN count ELSE count - 1

\* lines 225-257 and 295: one turn of the inner loop in which nothing raises
DlInner ==
    /\ pg_pc = "inner"
    /\ IF dl_count[gr_cur] = 0
       THEN /\ pg_pc' = "top"
            /\ current_page_index' = current_page_index + 1
            /\ UNCHANGED <<dl_count, dl_clicks>>
       ELSE /\ dl_count' = [dl_count EXCEPT
                              ![gr_cur] = after_click(@, dl_stubborn)]
            /\ dl_clicks' = (dl_clicks + 1) % 2
            /\ UNCHANGED <<pg_pc, current_page_index>>
    /\ UNCHANGED <<page_index, sc_ret, sc_err, gr_cur>>
    /\ DlKeep /\ DlFrame

\* lines 240-265 and 295: the click or a wait raises, the loop is left
DlInnerRaise ==
    /\ pg_pc = "inner" /\ dl_count[gr_cur] > 0
    /\ pg_pc' = "top"
    /\ current_page_index' = current_page_index + 1
    /\ sc_err' = TRUE
    /\ UNCHANGED <<page_index, sc_ret, gr_cur, dl_count, dl_clicks>>
    /\ DlKeep /\ DlFrame

DlStep ==
    \/ DlBegin \/ DlTop \/ DlReturn \/ DlInner
    \/ HpBegin \/ GrAttempt \/ GrReturn

DlNext == DlStep \/ DlInnerRaise

DlSpec == DlInit /\ [][DlNext]_vars /\ WF_vars(DlStep)


\* ---------- the _do_pagination_logic of DeleteQueriesBot beside the one of
\* ManageSuspendedQueriesBot, on the same snapshots

\* the iteration of SendDownloadQueryBot in its place
pagination_step_no_end_test(t, row, att) ==
    pagination_step_download(t, row, att)

\* DeleteQueriesBot._do_pagination_logic, lines 84-179 of
\* delete_queries_bot.py: one iteration of the for loop
pagination_step_delete(t, row, att) ==
    LET pages == visible_pages(row)
    IN  IF pages = {}
        THEN [action |-> "Wait", then |-> "continue"]
        ELSE IF t \in pages
        THEN [action |-> "Jump", then |-> "True"]
        ELSE IF has_ellipsis(row)
        THEN IF t > row.hi
             THEN IF ~can_go_forward(row)
                  THEN [action |-> "none", then |-> "False"]
                  ELSE [action |-> click_ellipsis(row, -1),
                        then |-> "continue"]
             ELSE [action |-> click_ellipsis(row, 0), then |-> "continue"]
        ELSE IF t > row.hi
        THEN [action |-> "none", then |-> "False"]
        ELSE IF att > 5
        THEN [action |-> "none", then |-> "break"]
        ELSE [action |-> "Wait", then |-> "continue"]

EqFrame == UNCHANGED <<pqVars, bmVars, msVars, cpVars, rpVars, lgVars,
                       grVars, scVars, dlVars>>

\* both functions called with the same page_index
EqInit ==
    /\ page_index \in 2..(MaxPage + 1)
    /\ pg_pc = "loop" /\ pg_calls = 1
    /\ pg_attempt = 0 /\ pg_row = EmptyRow /\ pg_action = "none"
    /\ pg_success = FALSE /\ pg_raised = FALSE /\ pg_all_empty = FALSE
    /\ EqIdle
    /\ PqOff /\ BmIdle /\ MsIdle /\ CpIdle /\ RpIdle /\ LgIdle
    /\ GrIdle /\ ScIdle /\ DlIdle

\* one iteration of both for loops on the same snapshot; a driver call that
\* raises ends both with the except clause (lines 236-238, 181-183)
EqAttempt ==
    /\ pg_pc = "loop"
    /\ pg_attempt' = pg_attempt + 1
    /\ \/ /\ pg_raised' = TRUE /\ pg_pc' = "returned"
          /\ eq_manage' = [action |-> "none", then |-> "False"]
          /\ eq_delete' = [action |-> "none", then |-> "False"]
          /\ UNCHANGED pg_row
       \/ \E row \in Rows :
            LET m == pagination_step(page_index, row, pg_attempt)
                d == pagination_step_delete(page_index, row, pg_attempt)
            IN  /\ pg_row' = row
                /\ eq_manage' = m
                /\ eq_delete' = d
                /\ pg_raised' = FALSE
                /\ pg_pc' = IF /\ m.then = "continue" /\ d.then = "continue"
                               /\ more_attempts(pg_attempt)
                            THEN "loop" ELSE "returned"
    /\ UNCHANGED <<page_index, pg_calls, pg_action, pg_success, pg_all_empty>>
    /\ EqFrame

\* the value the Manage copy returns (lines 179, 203, 228, 235, 238)
EqReturn ==
    /\ pg_pc = "returned"
    /\ pg_success' = (eq_manage.then = "True")
    /\ pg_action' = eq_manage.action
    /\ pg_pc' = "handled"
    /\ UNCHANGED <<page_index, pg_calls, pg_attempt, pg_row, pg_raised,
                   pg_all_empty, eq_manage, eq_delete>>
    /\ EqFrame

EqNext == EqAttempt \/ EqReturn

EqSpec == EqInit /\ [][EqNext]_vars


\* ---------- SendQueryBot.run of send_query_bot.py

\* the handle of the next driver; handles of stopped sessions are taken again
NextHandle == IF hseq >= MaxSqHandles THEN 1 ELSE hseq + 1

\* BrowserManager.start (browser.py lines 11-17) with outcome o
SqBrowserStart(o) ==
    IF o = "playwright_raises"
    THEN UNCHANGED bmVars
    ELSE /\ hseq' = NextHandle
         /\ playwright' = NextHandle
         /\ openPw' = openPw \cup {NextHandle}
         /\ IF o = "launch_raises"
            THEN UNCHANGED <<browser, openBr>>
            ELSE /\ browser' = NextHandle
                 /\ openBr' = openBr \cup {NextHandle}

SqKeep == /\ UNCHANGED <<config, result, done_file, undone_tasks, handed,
                         runs, doneAtStart, attempts, succeeded, tried,
                         sessions, firstFailRun, undoneAtStart>>
          /\ UNCHANGED <<msVars, cpVars, newVars>>

SqInit ==
    /\ pc = "sq_run"
    /\ config \in Configs
    /\ done_file = <<>> /\ undone_tasks = {}
    /\ runs = 1 /\ doneAtStart = {}
    /\ PqIdle /\ BmIdle /\ MsIdle /\ CpIdle /\ NewIdle

\* lines 37-45
SqBegin ==
    /\ pc = "sq_run"
    /\ undone_countries' = config
    /\ total_count' = Len(config)
    /\ last_undone_count' = Len(config)
    /\ stagnant_iters' = 0
    /\ iteration' = 1
    /\ pc' = "sq_while"
    /\ UNCHANGED <<is_stagnant, keys, key, lastLogin, bmVars>>
    /\ SqKeep

\* line 47: while len(undone_countries) > 0
SqWhile ==
    /\ pc = "sq_while"
    /\ pc' = IF Len(undone_countries) > 0 THEN "sq_start" ELSE "sq_done"
    /\ UNCHANGED <<undone_countries, total_count, last_undone_count,
                   stagnant_iters, iteration, is_stagnant, keys, key,
                   lastLogin, bmVars>>
    /\ SqKeep

\* line 51: browser_manager.start() stands before the try; an exception of
\* it leaves run
SqStart ==
    /\ pc = "sq_start"
    /\ \E o \in StartOutcomes :
          /\ SqBrowserStart(o)
          /\ pc' = IF o = "ok" THEN "sq_login" ELSE "raised"
    /\ lastLogin' = "none"
    /\ UNCHANGED <<undone_countries, total_count, last_undone_count,
                   stagnant_iters, iteration, is_stagnant, keys, key>>
    /\ SqKeep

\* lines 53-62: login False -> stop(), continue (through the finally); an
\* exception is caught at line 122
SqLogin ==
    /\ pc = "sq_login"
    /\ \E r \in LoginOutcomes :
          /\ lastLogin' = r
          /\ IF r = "ok"
             THEN pc' = "sq_for" /\ keys' = undone_countries
                  /\ UNCHANGED bmVars
             ELSE /\ pc' = "sq_finally" /\ keys' = keys
                  /\ IF r = "fail" THEN BrowserStop ELSE UNCHANGED bmVars
    /\ UNCHANGED <<undone_countries, total_count, last_undone_count,
                   stagnant_iters, iteration, is_stagnant, key>>
    /\ SqKeep

\* lines 64-120: one key of the batch; a failed key is logged (line 97) and
\* the loop goes on; after a success the key is deleted (line 116) and the
\* wait of line 120 may raise (caught at line 122)
SqFor ==
    /\ pc = "sq_for"
    /\ IF keys = <<>>
       THEN pc' = "sq_finally" /\ UNCHANGED <<keys, key, undone_countries>>
       ELSE \E success \in BOOLEAN, raises \in BOOLEAN :
              /\ key' = Head(keys) /\ keys' = Tail(keys)
              /\ undone_countries' = IF success
                                     THEN Remove(undone_countries, Head(keys))
                                     ELSE undone_countries
              /\ pc' = IF success /\ raises THEN "sq_finally" ELSE "sq_for"
    /\ UNCHANGED <<total_count, last_undone_count, stagnant_iters, iteration,
                   is_stagnant, lastLogin, bmVars>>
    /\ SqKeep

\* where the finally clause of line 125 leaves to: the while test after the
\* continue of line 59, the stagnation check otherwise
AfterFinally(login) == IF login = "fail" THEN "sq_while" ELSE "sq_check"

\* lines 125-127
SqFinally ==
    /\ pc = "sq_finally"
    /\ BrowserStop
    /\ pc' = AfterFinally(lastLogin)
    /\ UNCHANGED <<undone_countries, total_count, last_undone_count,
                   stagnant_iters, iteration, is_stagnant, keys, key,
                   lastLogin>>
    /\ SqKeep

\* lines 129-142: the stagnation check, the same arithmetic as
\* _check_progress
SqCheck ==
    /\ pc = "sq_check"
    /\ LET r == check_progress(Len(undone_countries), last_undone_count,
                               stagnant_iters)
       IN  /\ is_stagnant' = r.is_stagnant
           /\ last_undone_count' = r.last_count
           /\ stagnant_iters' = r.stagnant_iters
           /\ pc' = IF r.is_stagnant THEN "sq_done" ELSE "sq_while"
           /\ iteration' = IF r.is_stagnant THEN iteration ELSE iteration + 1
    /\ UNCHANGED <<undone_countries, total_count, keys, key, lastLogin,
                   bmVars>>
    /\ SqKeep

SqNext == \/ SqBegin \/ SqWhile \/ SqStart \/ SqLogin \/ SqFor
          \/ SqFinally \/ SqCheck

SqSpec == SqInit /\ [][SqNext]_vars /\ WF_vars(SqNext)


\* ================================================================ claims

\* C1 (Idempotent resume): a run started with the keys D already in the done
\* file works on exactly config \ D and never calls process_country for a
\* key of D.
IdempotentResume ==
    /\ \A i \in 1..Len(attempts) : attempts[i].key \notin doneAtStart
    /\ (pc = "while" /\ sessions = 0 =>
            Range(undone_countries) = Range(config) \ doneAtStart)

\* C2 (Work/done disjointness): once process_query has built its work dict,
\* at every point between two steps no key is both in undone_countries and
\* in the done file.
WorkDoneDisjoint ==
    pc \in PqPositions \ {"process_query"} =>
        Range(undone_countries) \cap Range(done_file) = {}

\* C3 (Stagnation correctness): a run of sessions that each fail their first
\* attempted country ends by the stagnation abort at its 5th session, never
\* at the 4th and never reaching a 6th; when every session of the run was
\* such a session the run returns False with all keys of config undone.
StagnationAfterExactlyFive ==
    /\ firstFailRun <= 5
    /\ (firstFailRun = 5 => is_stagnant /\ pc \in {"after_loop", "returned"})
    /\ (is_stagnant => sessions >= 5 /\ stagnant_iters = 5)
    /\ (is_stagnant /\ sessions = firstFailRun => sessions = 5)
    /\ (pc = "returned" /\ is_stagnant /\ sessions = firstFailRun =>
            /\ result = "False"
            /\ Range(undone_countries) = Range(config)
            /\ handed = Range(config))

StagnationScenarioXY ==
    /\ pc = "returned" /\ is_stagnant /\ result = "False"
    /\ config = <<1, 2>>
    /\ sessions = 5 /\ firstFailRun = 5
    /\ attempts = <<[key |-> 1, ok |-> FALSE]>>
    /\ undone_countries = <<1, 2>>
    /\ handed = {1, 2}

\* C4 (_check_progress is observe): equal counts increment the counter and
\* keep last, different counts reset the counter and set last to current;
\* abort is reported exactly when the new counter is >= 5; in both cases the
\* returned last equals current.
CheckProgressIsObserve ==
    cp_called =>
        /\ (cp_current = cp_last =>
                /\ cp_result.stagnant_iters = cp_stagnant + 1
                /\ cp_result.last_count = cp_last)
        /\ (cp_current # cp_last =>
                /\ cp_result.stagnant_iters = 0
                /\ cp_result.last_count = cp_current)
        /\ (cp_result.is_stagnant <=> cp_result.stagnant_iters >= 5)
        /\ cp_result.last_count = cp_current

CheckProgressReachesThreshold ==
    /\ cp_called /\ cp_current = cp_last /\ cp_stagnant = 4
    /\ cp_result = [is_stagnant |-> TRUE, last_count |-> cp_last,
                    stagnant_iters |-> 5]

\* C5: between sessions and at the end the work dict holds exactly the keys
\* of config whose process_country has not returned True, and process_query
\* returns True exactly when the work dict is empty when the loop is left.
RemainingIsInitialMinusSucceeded ==
    /\ (pc \in {"while", "start", "check", "after_loop", "returned"} =>
            Range(undone_countries) = Range(config) \ succeeded)
    /\ (pc = "returned" =>
            /\ result \in {"True", "False"}
            /\ (result = "True" <=> undone_countries = <<>>))
    /\ (pc # "returned" => result = "none")

\* ids {A,B,C}: session 1 got A done and not B, session 2 got B and C done
ScenarioABCFullSuccess ==
    /\ pc = "returned" /\ result = "True"
    /\ config = <<1, 2, 3>>
    /\ sessions = 2
    /\ attempts = <<[key |-> 2, ok |-> TRUE], [key |-> 3, ok |-> TRUE]>>
    /\ succeeded = {1, 2, 3}

\* C6 (Break on first failure): the process_country calls of a session are
\* a run of successes followed by at most one failure, and after a failure
\* the session is on its way out (stop, then _check_progress).
BreakOnFirstFailure ==
    /\ \A i \in 1..(Len(attempts) - 1) : attempts[i].ok
    /\ (attempts # <<>> /\ ~attempts[Len(attempts)].ok =>
            pc \in {"finally", "check", "while", "start", "after_loop",
                    "returned", "raised"})

FailureLeavesItemsUntried ==
    /\ pc = "check"
    /\ config = <<1, 2, 3>>
    /\ attempts = <<[key |-> 1, ok |-> TRUE], [key |-> 2, ok |-> FALSE]>>
    /\ undone_countries = <<2, 3>>

\* C7: whenever _run_iteration has been left, by return or by an exception,
\* nothing that browser_manager.start acquired in it is still running.
SessionAlwaysReleased ==
    pc \in {"check", "while", "after_loop", "returned", "raised"} =>
        openPw = {} /\ openBr = {}

\* C8: at most one playwright driver and one browser are running at any
\* time, and browser_manager.start is entered only when none is.
NoSessionOverlap ==
    /\ Cardinality(openPw) <= 1
    /\ Cardinality(openBr) <= 1
    /\ (pc = "start" \/ ms_pc = "start" => openPw = {} /\ openBr = {})

\* C9 (Authentication failure): in a session whose login returned False no
\* process_country call is made, the work dict is what it was when the
\* session started, the browser is stopped, and process_query then either
\* starts the next session or leaves the loop with stagnation declared.
LoginFailureSkipsSession ==
    lastLogin = "fail" =>
        /\ attempts = <<>>
        /\ undone_countries = undoneAtStart
        /\ pc \in {"finally", "check", "while", "start", "after_loop",
                   "returned"}
        /\ (pc # "finally" => openPw = {} /\ openBr = {})
        /\ (pc = "while" => undone_countries # <<>>)
        /\ (pc \in {"after_loop", "returned"} => is_stagnant)

RetryAfterLoginFailure ==
    /\ lastLogin = "fail" /\ pc = "start"
    /\ sessions = 1 /\ stagnant_iters = 1
    /\ undone_countries = config /\ Len(config) = 2

UndoneOutputIsRemaining ==
    /\ (pc = "returned" /\ is_stagnant =>
            /\ result = "False"
            /\ handed # {}
            /\ handed = Range(undone_countries)
            /\ handed = Range(config) \ succeeded)
    /\ (pc = "returned" /\ ~is_stagnant => result = "True" /\ handed = {})
    /\ (pc # "returned" => handed = {})

AbortReportsTheRest ==
    /\ pc = "returned" /\ is_stagnant /\ result = "False"
    /\ config = <<1, 2, 3>>
    /\ succeeded = {1}
    /\ handed = {2, 3}
    /\ undone_tasks = {2, 3}

\* C13 (Ordering on success): when a key is appended to the done file it has
\* already been removed from the work dict, and when process_country is
\* entered for the next key every key completed before in the session is
\* out of the work dict.
OrderingOnSuccess ==
    [][/\ (Len(done_file') > Len(done_file) =>
               done_file'[Len(done_file')] \notin Range(undone_countries))
       /\ (pc' = "process_country" =>
               \A i \in 1..Len(attempts) :
                   attempts[i].ok =>
                       attempts[i].key \notin Range(undone_countries'))]_vars

\* C15: the run of process_query is never ended by the failure of one item
\* or of one session: it ends only by the return of line 208, with the work
\* dict empty or stagnation declared.
NoFailureEndsTheRun ==
    /\ pc # "raised"
    /\ (pc = "returned" => undone_countries = <<>> \/ is_stagnant)

\* C14 (PersistenceError policy): a turn of a for loop in which the unit of
\* work succeeded and the write of its checkpoint failed leaves the item a
\* success (not in failed_pairs / still_failed; on its way to the del in
\* SendQueryBot) and does not end the loop by an exception.
PersistenceErrorOnlyLogged ==
    [][/\ (/\ rp_pc \in {"pass", "retry"}
           /\ rp_last' \in {"marker_fail", "ledger_raise"}
           => /\ failed_pairs' = failed_pairs
              /\ still_failed' = still_failed
              /\ (rp_pc' = "finally" =>
                      rp_idx < Len(IF rp_pc = "pass" THEN pairs_to_process
                                   ELSE failed_pairs)))
       /\ (/\ pc = "process_country"
           /\ succeeded' # succeeded
           /\ done_file' = done_file
           => pc' = "del")]_vars

\* C12 (Monotonic done-set): no step takes an id out of the done set: the
\* in-memory processed_ids, the ids the two ledger files of
\* ManageSuspendedQueriesBot hold, and the lines of reprocessed_pairs.txt
\* only grow, within a run and across a restart that reloads them.
DoneSetOnlyGrows ==
    [][/\ processed_ids \subseteq processed_ids'
       /\ LedgerIds \subseteq LedgerIds'
       /\ Range(rp_ledger) \subseteq Range(rp_ledger')]_vars

\* an iteration of _do_pagination_logic has just read a non-empty snapshot
\* and no driver call of the iteration raised
PgDecided ==
    /\ pg_pc = "loop" /\ pg_attempt' = pg_attempt + 1
    /\ ~pg_raised' /\ visible_pages(pg_row') # {}

ForwardOrEndOfList ==
    [][(PgDecided /\ page_index > pg_row'.hi)
          => IF pg_row'.fwd
             THEN /\ pg_action' = "ExpandForward"
                  /\ pg_pc' = "loop" \/ pg_attempt' = max_attempts
             ELSE /\ pg_action' = "none"
                  /\ pg_pc' = "returned" /\ ~pg_success']_vars

\* C18 (backward): on a non-empty window whose lowest page is above the
\* target, the iteration expands backward when the window offers earlier
\* pages and otherwise returns False; it never expands forward.
BackwardOrEndOfList ==
    [][(PgDecided /\ page_index < pg_row'.lo)
          => /\ pg_action' # "ExpandForward"
             /\ IF pg_row'.bwd
                THEN pg_action' = "ExpandBackward"
                ELSE /\ pg_action' = "none"
                     /\ pg_pc' = "returned" /\ ~pg_success']_vars

\* C19 (empty window): the scan never stops on a pagination failure when
\* all that the resolver saw were empty snapshots.
EmptyWindowIsNotEndOfList ==
    pg_pc = "pagination_failed" => ~pg_all_empty

\* C20 (bounded resolution): a call of _do_pagination_logic runs at most 15
\* iterations, _handle_pagination makes at most two calls, and every
\* _handle_pagination that starts returns.
ResolutionBounded ==
    /\ [](pg_attempt <= 15 /\ pg_calls <= 2)
    /\ (pg_pc = "handle") ~> (pg_pc = "handled")

BudgetSpentTwice ==
    /\ pg_pc = "handled" /\ pg_calls = 2 /\ pg_attempt = 15
    /\ ~pg_success /\ ~pg_raised

\* C27 (restart on failure): once the unit of work of an item has failed,
\* no further item is attempted in the same browser session; stated for
\* ReprocessSuspendedBot, whose run holds one session.
NoItemAfterFailure ==
    rp_pc \in {"pass", "retry"} => rp_last \notin {"unit_fail", "marker_fail"}

\* C28 (ReprocessSuspendedBot resume): the list to process holds each unique
\* pair of the csv that is not in the ledger, once; the pair about to be
\* attempted in the initial pass is never one the ledger holds.
ResumeListIsInputMinusLedger ==
    /\ \A i, j \in DOMAIN pairs_to_process :
          pairs_to_process[i] = pairs_to_process[j] => i = j
    /\ rp_pc = "start"
          => Range(pairs_to_process) = Range(rp_csv) \ Range(rp_ledger)
    /\ rp_pc = "pass" => pairs_to_process[rp_idx] \notin Range(rp_ledger)

ResumeSkipsLedgerAndDuplicates ==
    /\ rp_pc = "pass" /\ rp_runs = 2
    /\ rp_csv = <<1, 2, 1>> /\ rp_ledger = <<1>>
    /\ pairs_to_process = <<2>>

\* C29 (retry loop): the retry loop ends with no failed pair left or after
\* 5 passes in a row that left the failed count unchanged; a pass that
\* lowers the count sets the counter back to 0; the loop always ends.
RetryLoopStopsAfterFive ==
    /\ [](no_progress_count <= 5)
    /\ [](rp_pc = "summary"
            => failed_pairs = <<>> \/ no_progress_count = 5)
    /\ [][rp_pc = "retry_check"
            => no_progress_count' =
                 IF Len(still_failed) = previous_failed_count
                 THEN no_progress_count + 1 ELSE 0]_vars
    /\ (rp_pc = "retry_init") ~> (rp_pc = "done")

FiveStagnantPassesAfterProgress ==
    /\ rp_pc = "summary" /\ no_progress_count = 5
    /\ retry_attempt = 6 /\ Len(failed_pairs) = 1

\* C30 (final report): at the final summary every pair to process is either
\* in the ledger, once, or among the reported failed pairs, not both; and the
\* reported number of successes is the number of pairs whose work succeeded.
FinalReportMatchesWork ==
    rp_pc = "summary"
      => /\ \A p \in Range(pairs_to_process) :
               (Cardinality({i \in DOMAIN rp_ledger : rp_ledger[i] = p}) = 1)
                  # (p \in Range(failed_pairs))
         /\ \A p \in Range(rp_ledger) :
               Cardinality({i \in DOMAIN rp_ledger : rp_ledger[i] = p}) = 1
         /\ Len(pairs_to_process) - Len(failed_pairs)
               = Cardinality(rp_worked)

\* C21 (resolver against a grid of N pages): called on the view of page 1,
\* _handle_pagination ends on the target page and returns True for every
\* target from 1 to N, and returns False for every target above N.
ResolverReachesEveryPage ==
    (pg_pc = "handled" /\ gr_n > 0)
      => IF page_index <= gr_n
         THEN pg_success /\ gr_cur = page_index
         ELSE ~pg_success


\* C22 (PaginationExhausted ends the scan): for every persisted last_page
\* value, also one beyond the last page of the grid, a started
\* process_suspended_queries returns.
ScanTerminates == (pg_pc = "begin") ~> (pg_pc = "ended")

\* C23 (last_page never decides correctness): a scan that ran to the end of
\* the list without an error has processed every suspended id, whatever
\* last_page.txt held when it started.
ScanProcessesEverySuspendedId ==
    (pg_pc = "ended" /\ sc_runs > 0 /\ ~sc_err) => sc_susp \subseteq processed_ids

AdvanceOnlyWhenDrained ==
    [][(pg_pc = "rows" /\ current_page_index' = current_page_index + 1)
          => (gr_cur \in sc_susp => gr_cur \in processed_ids')]_vars

\* C26 (delete scan halts): process_deletion returns for every behaviour of
\* the grid, also when a click of Delete never removes the row.
DeleteScanTerminates == (pg_pc = "begin" /\ gr_bot = "delete") ~> (pg_pc = "ended")

\* C31 (reload skips only ids with data): after a process start every id of
\* processed_ids has a csv row that carries data; an id saved as "Not Found"
\* only is not in the reloaded set.
ReloadSkipsOnlyFoundIds ==
    lg_last = "load" =>
        \A id \in processed_ids : \E r \in lg_csv : r.id = id /\ r.found

\* C32 (SendDownloadQueryBot at the end of the list): an iteration whose
\* target is above the highest visible page on a row without forward '...'
\* clicks nothing and does not succeed; an iteration seeking a higher page
\* never clicks the backward '...'.
DownloadEndOfListWithoutClick ==
    [][(gr_bot = "download" /\ pg_pc = "loop") =>
          LET row == GridRow(gr_n, gr_w, gr_cur)
          IN  page_index > row.hi =>
                /\ pg_action' # "ExpandBackward"
                /\ ~row.fwd => (pg_action' \in {"none", "Wait"}
                                /\ ~pg_success')]_vars

\* C33 (At-least-once bookkeeping): a key leaves undone_countries, and a key
\* is appended to the done file, only in a step that follows a
\* process_country call of the current session that succeeded for that key;
\* a key whose call failed or that was not attempted stays in the work dict.
RemovedOnlyAfterSuccess ==
    [][/\ \A k \in Range(undone_countries) \ Range(undone_countries') :
             /\ attempts # <<>>
             /\ attempts[Len(attempts)] = [key |-> k, ok |-> TRUE]
       /\ \A k \in Range(done_file') \ Range(done_file) :
             attempts'[Len(attempts')] = [key |-> k, ok |-> TRUE]
       /\ (pc = "check" => Range(config) \ succeeded
                              \subseteq Range(undone_countries'))]_vars

\* C33 witness: a session removed key 1 after its success and failed on
\* key 2, which is still in the work dict when the session is over.
FailedKeyStaysForNextSession ==
    /\ pc = "check"
    /\ attempts = <<[key |-> 1, ok |-> TRUE], [key |-> 2, ok |-> FALSE]>>
    /\ 1 \notin Range(undone_countries) /\ 1 \in Range(done_file)
    /\ 2 \in Range(undone_countries) /\ 2 \notin Range(done_file)

\* sessions of the current run that were started, the running one included
StartedSessions ==
    sessions + (IF pc \in {"login", "for", "process_country", "del",
                           "finally", "check", "raised"} THEN 1 ELSE 0)

\* C34 (Session budget): process_query starts at most 5 * n sessions for a
\* config of n keys (none when n = 0), stagnant_iters stays within 0..5, and
\* a session never ends with more keys in the work dict than it started
\* with.
SessionBudget ==
    pc \in PqPositions \ {"process_query"} =>
        /\ StartedSessions <= StagnationThreshold * Len(config)
        /\ stagnant_iters \in 0..StagnationThreshold
        /\ (pc \in {"finally", "check"} =>
                Len(undone_countries) <= Len(undoneAtStart))
        /\ Len(undone_countries) <= last_undone_count

\* C34 witness: a config of 2 keys used up all of its 10 sessions.
BudgetOfTwoKeysUsedUp ==
    /\ pc = "returned" /\ Len(config) = 2 /\ sessions = 10

\* C35 (unresolved ids were tried): every key that process_query hands to
\* save_undone_countries at a stagnation abort was the argument of a
\* process_country call of the run.
UnresolvedWereAttempted ==
    (pc = "returned" /\ is_stagnant) => handed \subseteq tried

\* C36 (one stop per session): in ManageSuspendedQueriesBot.run every call
\* of BrowserManager.stop finds the browser and the driver of the session
\* still running, and attempt never exceeds max_retries.
StopOnlyOnRunningSession ==
    [][/\ attempt' <= max_retries
       /\ (\/ ms_pc = "final_stop"
           \/ ms_pc = "login" /\ ms_pc' = "finally"
           \/ ms_pc = "process" /\ ~ms_break'
           \/ ms_pc = "finally" /\ attempt < max_retries
                                /\ browser \in openBr)
          => (browser \in openBr /\ playwright \in openPw)]_vars

\* C37 (success means a full scan): run logs an attempt as completed
\* successfully only when the scan of that attempt reached the results page,
\* had no row fail, and stopped at the end of the list.
SuccessOnlyAfterFullScan ==
    pg_pc = "success" => (~sc_err /\ sc_ret = "top" /\ ~pg_success)

\* C38 (the two resolvers are equivalent): on every snapshot, for every
\* target and loop index, the iterations of ManageSuspendedQueriesBot and of
\* DeleteQueriesBot do the same thing to the page and end the same way.
ResolversAgree == eq_manage = eq_delete

\* C38 witness: both copies returned False on a last block that has a
\* backward '...' only, after having moved forward before.
BothStopAtEndOfList ==
    /\ pg_pc = "returned" /\ pg_attempt >= 2
    /\ pg_row.bwd /\ ~pg_row.fwd /\ page_index > pg_row.hi
    /\ eq_delete = [action |-> "none", then |-> "False"]

\* C39 (the retry loop of send_query_bot.py ends): run leaves its while
\* loop for every behaviour of login and of the steps of a key, also when
\* login fails in every session.
SendQueryRunEnds == (pc = "sq_while") ~> (pc \in {"sq_done", "raised"})

====
